---- MODULE Spec2Model ----
(***************************************************************************)
(* MeetSpot: the singleton configuration manager (app/config_simple.py)    *)
(* and the server bootstrap (web_server.py).                               *)
(*                                                                         *)
(* Optional values (Python None / a value) are sequences of length <= 1:   *)
(* <<>> is None or "not set", <<v>> is the value v.                        *)
(*                                                                         *)
(* Threads interleave at every access to the shared state of Config        *)
(* (_instance, _initialized, _config, _lock).  One run of                  *)
(* _load_initial_config reads the environment and the file at one instant  *)
(* and assigns _config once; the environment may change between any two    *)
(* steps, the file is the same throughout a behaviour.                     *)
(***************************************************************************)
EXTENDS Integers, Sequences, FiniteSets, TLC

\* ------------------------------------------------------------------ bounds
NThreads == 2
MaxRuns == 3
MaxPortLen == 4

Threads == 1..NThreads

\* ------------------------------------------------------------ environment
\* os.environ restricted to the two variables the resolver reads.
KeyVals == {<<>>, <<"">>, <<"e1">>, <<"e2">>}
SjcVals == {<<>>, <<"js1">>}
Envs == [key : KeyVals, sjc : SjcVals]
\* the environments the concurrent specification moves between
ReloadEnvs == [key : {<<>>, <<"e1">>, <<"e2">>}, sjc : {<<>>}]

\* os.getenv(name, default)
getenv(v, default) == IF v = <<>> THEN default ELSE v[1]
\* os.getenv(name) used as a condition: None and "" are both falsy
getenvTruthy(v) == v # <<>> /\ v[1] # ""

\* ------------------------------------------------------------ config file
\* A TOML value: a string, or an array such as [1] (any non-string would do).
TStr(s) == [t |-> "str", s |-> s]
TArr == [t |-> "arr", s |-> ""]
NoTable == [api_key |-> <<>>, security_js_code |-> <<>>, level |-> <<>>, file_path |-> <<>>]

\* the amap entry of the parsed file: missing, a scalar, or a table
AmapTables == [api_key : {<<>>, <<TStr("")>>, <<TStr("fk1")>>, <<TArr>>},
               security_js_code : {<<>>, <<TStr("fs1")>>, <<TArr>>},
               level : {<<>>}, file_path : {<<>>}]
\* the log entry of the parsed file: missing, a scalar, or a table
LogTables == [api_key : {<<>>}, security_js_code : {<<>>},
              level : {<<>>, <<TStr("DEBUG")>>, <<TArr>>},
              file_path : {<<>>, <<TStr("x.log")>>}]
Entry(kind, tbl) == [kind |-> kind, tbl |-> tbl]
AmapEntries == {Entry("missing", NoTable), Entry("scalar", NoTable)}
               \cup {Entry("table", tb) : tb \in AmapTables}
LogEntries == {Entry("missing", NoTable), Entry("scalar", NoTable)}
              \cup {Entry("table", tb) : tb \in LogTables}
NoData == [amap |-> Entry("missing", NoTable), log |-> Entry("missing", NoTable)]
File(state, data) == [state |-> state, data |-> data]
\* config/config.toml: absent, present but not TOML, or present and parsed
Files == {File("absent", NoData), File("malformed", NoData)}
         \cup {File("valid", d) : d \in [amap : AmapEntries, log : LogEntries]}
\* the files the concurrent specification starts from
ReloadFiles == {File("absent", NoData),
                File("valid", [amap |-> Entry("table", [NoTable EXCEPT !.api_key = <<TStr("fk1")>>]),
                               log |-> Entry("table", [NoTable EXCEPT !.level = <<TStr("DEBUG")>>])])}

\* ---------------------------------------------------------------- settings
AMapSettings(api_key, security_js_code) ==
    [api_key |-> api_key, security_js_code |-> security_js_code]
LogSettings(level, file_path) == [level |-> level, file_path |-> file_path]
DefaultLevel == "INFO"
DefaultFilePath == "logs/meetspot.log"
DefaultLog == LogSettings(DefaultLevel, DefaultFilePath)
AppConfig(id, amap, log) == [id |-> id, amap |-> amap, log |-> log]

\* ---------------------------------------------------------- exceptions
\* the exception classes resolution can raise, and their base classes
Bases(k) ==
    CASE k = "FileNotFoundError" -> {"FileNotFoundError", "OSError", "Exception"}
      [] k = "TOMLDecodeError" -> {"TOMLDecodeError", "ValueError", "Exception"}
      [] k = "ValidationError" -> {"ValidationError", "ValueError", "Exception"}
      [] k = "ValueError" -> {"ValueError", "Exception"}
      [] k = "AttributeError" -> {"AttributeError", "Exception"}
      [] k = "TypeError" -> {"TypeError", "Exception"}
      [] OTHER -> {}
\* a narrower handler: `except FileNotFoundError`
CatchesNotFound(k) == "FileNotFoundError" \in Bases(k)
\* `except Exception`
Catches(k) == "Exception" \in Bases(k)

\* ------------------------------------------------- resolution, pure parts
\* truthiness of dict.get(key): None and "" are falsy, a non-empty list is truthy
Truthy(o) == o # <<>> /\ ~(o[1].t = "str" /\ o[1].s = "")
\* pydantic's check of a str field given in the file
StrOk(o) == o = <<>> \/ o[1].t = "str"

Raise(k) == [exc |-> k, amap |-> AMapSettings("", <<>>), log |-> DefaultLog]
Built(amap, log) == [exc |-> "", amap |-> amap, log |-> log]

\* AMapSettings(**amap_config): api_key required, security_js_code optional
AMapFromTable(tb) ==
    AMapSettings(tb.api_key[1].s,
                 IF tb.security_js_code = <<>> THEN <<>> ELSE <<tb.security_js_code[1].s>>)
\* LogSettings(**table): both fields default
LogFromTable(tb) ==
    LogSettings(IF tb.level = <<>> THEN DefaultLevel ELSE tb.level[1].s,
                IF tb.file_path = <<>> THEN DefaultFilePath ELSE tb.file_path[1].s)

\* a faulty file branch: the table is looked up as "map", which the file
\* does not hold
FromFileWrongTable(f) ==
    IF f.state = "absent" THEN Raise("FileNotFoundError")
    ELSE IF f.state = "malformed" THEN Raise("TOMLDecodeError")
    ELSE Raise("ValueError")
\* lines 75-89: what the file branch builds, or the exception it raises
FromFile(f) ==
    IF f.state = "absent" THEN Raise("FileNotFoundError")
    ELSE IF f.state = "malformed" THEN Raise("TOMLDecodeError")
    ELSE IF f.data.amap.kind = "scalar" THEN Raise("AttributeError")
    ELSE IF ~Truthy(f.data.amap.tbl.api_key) THEN Raise("ValueError")
    ELSE IF ~(StrOk(f.data.amap.tbl.api_key) /\ StrOk(f.data.amap.tbl.security_js_code))
         THEN Raise("ValidationError")
    ELSE IF f.data.log.kind = "scalar" THEN Raise("TypeError")
    ELSE IF ~(StrOk(f.data.log.tbl.level) /\ StrOk(f.data.log.tbl.file_path))
         THEN Raise("ValidationError")
    ELSE Built(AMapFromTable(f.data.amap.tbl), LogFromTable(f.data.log.tbl))

\* lines 67-70 and 95-98: the map settings built from the environment alone
FromEnv(e) == AMapSettings(getenv(e.key, ""), <<getenv(e.sjc, "")>>)

\* a faulty variant: the file is tried first, the environment only without a usable file
EnvFirstUnlessFile(e, f) == getenvTruthy(e.key) /\ FromFile(f).exc # ""
\* line 65: if os.getenv("AMAP_API_KEY")
EnvFirst(e, f) == getenvTruthy(e.key)

Outcome(amap, log, printed, consultedFile, raised) ==
    [amap |-> amap, log |-> log, out |-> printed, consulted |-> consultedFile, exc |-> raised]

\* a faulty variant: the fallback prints nothing
ResolveSilent(e, f) ==
    IF EnvFirst(e, f)
    THEN Outcome(FromEnv(e), DefaultLog, <<>>, FALSE, "")
    ELSE IF FromFile(f).exc = ""
    THEN Outcome(FromFile(f).amap, FromFile(f).log, <<>>, TRUE, "")
    ELSE IF Catches(FromFile(f).exc)
    THEN Outcome(FromEnv(e), DefaultLog, <<>>, TRUE, "")
    ELSE Outcome(FromEnv(e), DefaultLog, <<>>, TRUE, FromFile(f).exc)
\* lines 61-99, _load_initial_config as a function of what it reads: the
\* settings it installs, what it prints, whether it looked at the file, and
\* the exception that leaves it ("" when it returns)
Resolve(e, f) ==
    IF EnvFirst(e, f)
    THEN Outcome(FromEnv(e), DefaultLog, <<>>, FALSE, "")
    ELSE IF FromFile(f).exc = ""
    THEN Outcome(FromFile(f).amap, FromFile(f).log, <<>>, TRUE, "")
    ELSE IF Catches(FromFile(f).exc)
    THEN Outcome(FromEnv(e), DefaultLog, <<FromFile(f).exc>>, TRUE, "")
    ELSE Outcome(FromEnv(e), DefaultLog, <<>>, TRUE, FromFile(f).exc)

\* ------------------------------------------------------------------- state
VARIABLES
    instance,      \* Config._instance: 0 is None, else the instance's identity
    ninst,         \* instances created so far by object.__new__
    initialized,   \* _initialized as seen through each instance
    config,        \* each instance's _config: <<>> is None
    lock,          \* Config._lock: 0 is free, else the holding thread
    env,           \* the process environment
    file,          \* config/config.toml, as it is while the program runs
    nobj,          \* AppConfig objects constructed so far (their identities)
    pc,            \* where each thread is
    self,          \* the instance a thread's current call works on
    ref,           \* the instance a thread's Config() returned, 0 if none yet
    caller,        \* who called _load_initial_config: "init" or "reload"
    out,           \* what a thread's resolution printed
    rdAmap,        \* the config.amap a thread read, with its snapshot's id
    rdLog,         \* the config.log it read after that
    err,           \* the exception that ended a thread, "" if none
    stable,        \* history: no input changed since the thread's resolution read them
    consulted,     \* history: the thread's resolution looked at the file
    fresh,         \* history: a reload() that read the current environment has returned
    torn,          \* history: settings were installed between the thread's two reads
    initRuns,      \* history: resolutions started by __init__
    port,          \* bootstrap: the environment's PORT
    railway,       \* bootstrap: RAILWAY_ENVIRONMENT is set
    importOk,      \* bootstrap: api.index and uvicorn import
    bpc,           \* bootstrap: where main() is
    bport,         \* bootstrap: the local `port`, <<>> before line 26
    bprod,         \* bootstrap: the local `is_production`, <<>> before line 29
    served,        \* bootstrap: the arguments of uvicorn.run, <<>> if not called
    exitCode       \* bootstrap: the argument of sys.exit, <<>> if not called

cfgVars == <<instance, ninst, initialized, config, lock, env, file, nobj, pc,
             self, ref, caller, out, rdAmap, rdLog, err, stable, consulted,
             fresh, torn, initRuns>>
bootVars == <<port, railway, importOk, bpc, bport, bprod, served, exitCode>>
vars == <<cfgVars, bootVars>>

Insts == 1..NThreads

\* the class attributes _instance = None, _initialized = False, a fresh Lock
InitConfig ==
    /\ instance = 0
    /\ ninst = 0
    /\ initialized = [i \in Insts |-> FALSE]
    /\ config = [i \in Insts |-> <<>>]
    /\ lock = 0
    /\ nobj = 0
    /\ pc = [t \in Threads |-> "idle"]
    /\ self = [t \in Threads |-> 0]
    /\ ref = [t \in Threads |-> 0]
    /\ caller = [t \in Threads |-> "init"]
    /\ out = [t \in Threads |-> <<>>]
    /\ rdAmap = [t \in Threads |-> <<>>]
    /\ rdLog = [t \in Threads |-> <<>>]
    /\ err = [t \in Threads |-> ""]
    /\ stable = [t \in Threads |-> FALSE]
    /\ consulted = [t \in Threads |-> FALSE]
    /\ fresh = FALSE
    /\ torn = [t \in Threads |-> FALSE]
    /\ initRuns = 0

\* `with cls._lock`: the lock can be taken when no thread holds it
LockFree(l) == l = 0

\* ------------------------------------------------------ Config.__new__
\* a faulty variant: no second check under the lock
NeedsInstanceAlways(inst) == TRUE
\* line 49: the check repeated under the lock
NeedsInstance(inst) == inst = 0

\* lines 46-47, 51 and 54: Config() is called. Without an instance the thread
\* goes for the lock; an existing instance is returned by __new__, and __init__
\* returns at once if it is initialized
New(t) ==
    /\ pc[t] = "idle"
    /\ IF instance = 0
       THEN /\ pc' = [pc EXCEPT ![t] = "new_lock"]
            /\ UNCHANGED <<self, ref>>
       ELSE IF initialized[instance]
       THEN /\ ref' = [ref EXCEPT ![t] = instance]
            /\ UNCHANGED <<pc, self>>
       ELSE /\ pc' = [pc EXCEPT ![t] = "init_lock"]
            /\ self' = [self EXCEPT ![t] = instance]
            /\ UNCHANGED ref
    /\ rdAmap' = [rdAmap EXCEPT ![t] = <<>>]
    /\ rdLog' = [rdLog EXCEPT ![t] = <<>>]
    /\ torn' = [torn EXCEPT ![t] = FALSE]
    /\ UNCHANGED <<instance, ninst, initialized, config, lock, env, file, nobj,
                   caller, out, err, stable, consulted, fresh, initRuns, bootVars>>

\* lines 48-51: under the lock, create the instance unless one exists; return it
NewLocked(t) ==
    /\ pc[t] = "new_lock"
    /\ LockFree(lock)
    /\ IF NeedsInstance(instance)
       THEN /\ ninst' = ninst + 1
            /\ instance' = ninst + 1
       ELSE UNCHANGED <<ninst, instance>>
    /\ self' = [self EXCEPT ![t] = instance']
    /\ pc' = [pc EXCEPT ![t] = "init_check"]
    /\ UNCHANGED <<initialized, config, lock, env, file, nobj,
                   ref, caller, out, rdAmap, rdLog, err, stable, consulted,
                   fresh, torn, initRuns, bootVars>>

\* ----------------------------------------------------- Config.__init__
\* a faulty variant: no second check under the lock
MustInitAlways(i) == TRUE
\* line 56: the check repeated under the lock
MustInit(i) == ~initialized[i]

\* line 54: the unlocked check; an initialized instance is returned at once
InitCheck(t) ==
    /\ pc[t] = "init_check"
    /\ IF initialized[self[t]]
       THEN /\ pc' = [pc EXCEPT ![t] = "idle"]
            /\ ref' = [ref EXCEPT ![t] = self[t]]
            /\ self' = [self EXCEPT ![t] = 0]
       ELSE /\ pc' = [pc EXCEPT ![t] = "init_lock"]
            /\ UNCHANGED <<ref, self>>
    /\ UNCHANGED <<instance, ninst, initialized, config, lock, env, file, nobj,
                   caller, out, rdAmap, rdLog, err, stable, consulted,
                   fresh, torn, initRuns, bootVars>>

\* lines 55-58: take the lock; if still uninitialized, clear _config and go on
\* to the resolution, else release and return
InitLocked(t) ==
    /\ pc[t] = "init_lock"
    /\ LockFree(lock)
    /\ IF MustInit(self[t])
       THEN /\ lock' = t
            /\ config' = [config EXCEPT ![self[t]] = <<>>]
            /\ pc' = [pc EXCEPT ![t] = "load"]
            /\ caller' = [caller EXCEPT ![t] = "init"]
            /\ initRuns' = initRuns + 1
            /\ UNCHANGED <<ref, self>>
       ELSE /\ pc' = [pc EXCEPT ![t] = "idle"]
            /\ ref' = [ref EXCEPT ![t] = self[t]]
            /\ self' = [self EXCEPT ![t] = 0]
            /\ UNCHANGED <<lock, config, caller, initRuns>>
    /\ UNCHANGED <<instance, ninst, initialized, env, file, nobj,
                   out, rdAmap, rdLog, err, stable, consulted, fresh, torn, bootVars>>

\* -------------------------------------------------------- Config.reload
\* resolutions under way or waiting for the lock
Pending == Cardinality({t \in Threads : pc[t] \in {"rl_lock", "load"}})

\* line 101: reload() is called on the instance the thread holds
Reload(t) ==
    /\ pc[t] = "idle"
    /\ ref[t] # 0
    /\ nobj + Pending < MaxRuns
    /\ pc' = [pc EXCEPT ![t] = "rl_lock"]
    /\ self' = [self EXCEPT ![t] = ref[t]]
    /\ rdAmap' = [rdAmap EXCEPT ![t] = <<>>]
    /\ rdLog' = [rdLog EXCEPT ![t] = <<>>]
    /\ torn' = [torn EXCEPT ![t] = FALSE]
    /\ UNCHANGED <<instance, ninst, initialized, config, lock, env, file, nobj,
                   ref, caller, out, err, stable, consulted, fresh, initRuns, bootVars>>

\* a faulty variant: reload() clears _config first, as __init__ does
ReloadClears(c) == <<>>
\* lines 103-105: reload() leaves _config alone until the new one is built
ReloadKeeps(c) == c

\* lines 103-104: take the lock, clear _initialized
ReloadLocked(t) ==
    /\ pc[t] = "rl_lock"
    /\ LockFree(lock)
    /\ lock' = t
    /\ initialized' = [initialized EXCEPT ![self[t]] = FALSE]
    /\ config' = [config EXCEPT ![self[t]] = ReloadKeeps(config[self[t]])]
    /\ pc' = [pc EXCEPT ![t] = "load"]
    /\ caller' = [caller EXCEPT ![t] = "reload"]
    /\ UNCHANGED <<instance, ninst, env, file, nobj,
                   self, ref, out, rdAmap, rdLog, err, stable, consulted, fresh, torn,
                   initRuns, bootVars>>

\* ------------------------------------------- Config._load_initial_config
\* a faulty variant: the installed AppConfig is updated in place, no new object is built
SameObject(n) == IF n = 0 THEN 1 ELSE n
\* lines 66, 84 and 94: AppConfig(...) builds a new object, with a new identity
NewObject(n) == n + 1

\* the readers that have read config.amap and not yet config.log
Between == {u \in Threads : pc[u] = "rd_log"}

\* a faulty variant: settings already installed are kept, the inputs are not read again
LoadOnce(t) ==
    /\ pc[t] = "load"
    /\ IF config[self[t]] # <<>>
       THEN UNCHANGED <<nobj, config, torn>>
       ELSE /\ nobj' = NewObject(nobj)
            /\ config' = [config EXCEPT ![self[t]] =
                   <<AppConfig(nobj', Resolve(env, file).amap, Resolve(env, file).log)>>]
            /\ torn' = [u \in Threads |-> torn[u] \/ u \in Between]
    /\ out' = [out EXCEPT ![t] = Resolve(env, file).out]
    /\ consulted' = [consulted EXCEPT ![t] = Resolve(env, file).consulted]
    /\ stable' = [stable EXCEPT ![t] = TRUE]
    /\ pc' = [pc EXCEPT ![t] = "loaded"]
    /\ UNCHANGED <<instance, ninst, initialized, env, file, lock, err, self,
                   ref, caller, rdAmap, rdLog, fresh, initRuns, bootVars>>

\* lines 61-99: the resolution reads the environment and the file and assigns
\* self._config once; an exception the handler does not catch leaves the
\* `with` block of the caller (the lock is released) and ends the call
Load(t) ==
    /\ pc[t] = "load"
    /\ IF Resolve(env, file).exc = ""
       THEN /\ nobj' = NewObject(nobj)
            /\ config' = [config EXCEPT ![self[t]] =
                   <<AppConfig(nobj', Resolve(env, file).amap, Resolve(env, file).log)>>]
            /\ out' = [out EXCEPT ![t] = Resolve(env, file).out]
            /\ consulted' = [consulted EXCEPT ![t] = Resolve(env, file).consulted]
            /\ stable' = [stable EXCEPT ![t] = TRUE]
            /\ torn' = [u \in Threads |-> torn[u] \/ u \in Between]
            /\ pc' = [pc EXCEPT ![t] = "loaded"]
            /\ UNCHANGED <<lock, err, self>>
       ELSE /\ lock' = 0
            /\ err' = [err EXCEPT ![t] = Resolve(env, file).exc]
            /\ pc' = [pc EXCEPT ![t] = "crashed"]
            /\ self' = [self EXCEPT ![t] = 0]
            /\ UNCHANGED <<nobj, config, out, consulted, stable, torn>>
    /\ UNCHANGED <<instance, ninst, initialized, env, file,
                   ref, caller, rdAmap, rdLog, fresh, initRuns, bootVars>>

\* lines 59 and 106: set _initialized, release the lock, return
LoadDone(t) ==
    /\ pc[t] = "loaded"
    /\ initialized' = [initialized EXCEPT ![self[t]] = TRUE]
    /\ lock' = 0
    /\ pc' = [pc EXCEPT ![t] = "idle"]
    /\ ref' = [ref EXCEPT ![t] = self[t]]
    /\ self' = [self EXCEPT ![t] = 0]
    /\ fresh' = (fresh \/ (caller[t] = "reload" /\ stable[t]))
    /\ stable' = [stable EXCEPT ![t] = FALSE]
    /\ consulted' = [consulted EXCEPT ![t] = FALSE]
    /\ out' = [out EXCEPT ![t] = <<>>]
    /\ caller' = [caller EXCEPT ![t] = "init"]
    /\ UNCHANGED <<instance, ninst, config, env, file, nobj,
                   rdAmap, rdLog, err, torn, initRuns, bootVars>>

\* ------------------------------------------------ Config.amap, Config.log
Part(c, val) == <<[id |-> c.id, val |-> val]>>

\* lines 108-111: self._config.amap; on None the attribute access raises
ReadAmap(t) ==
    /\ pc[t] = "idle"
    /\ ref[t] # 0
    /\ IF config[ref[t]] = <<>>
       THEN /\ err' = [err EXCEPT ![t] = "AttributeError"]
            /\ pc' = [pc EXCEPT ![t] = "crashed"]
            /\ rdAmap' = [rdAmap EXCEPT ![t] = <<>>]
       ELSE /\ rdAmap' = [rdAmap EXCEPT ![t] = Part(config[ref[t]][1], config[ref[t]][1].amap)]
            /\ pc' = [pc EXCEPT ![t] = "rd_log"]
            /\ UNCHANGED err
    /\ rdLog' = [rdLog EXCEPT ![t] = <<>>]
    /\ torn' = [torn EXCEPT ![t] = FALSE]
    /\ UNCHANGED <<instance, ninst, initialized, config, lock, env, file, nobj,
                   self, ref, caller, out, stable, consulted, fresh, initRuns, bootVars>>

\* lines 113-116: self._config.log, read after config.amap
ReadLog(t) ==
    /\ pc[t] = "rd_log"
    /\ IF config[ref[t]] = <<>>
       THEN /\ err' = [err EXCEPT ![t] = "AttributeError"]
            /\ pc' = [pc EXCEPT ![t] = "crashed"]
            /\ UNCHANGED rdLog
       ELSE /\ rdLog' = [rdLog EXCEPT ![t] = Part(config[ref[t]][1], config[ref[t]][1].log)]
            /\ pc' = [pc EXCEPT ![t] = "idle"]
            /\ UNCHANGED err
    /\ UNCHANGED <<instance, ninst, initialized, config, lock, env, file, nobj,
                   self, ref, caller, out, rdAmap, stable, consulted, fresh, torn,
                   initRuns, bootVars>>

\* ---------------------------------------------------------- the inputs
\* the environment is changed (os.environ[...] = ..., del os.environ[...])
SetEnv(e) ==
    /\ e # env
    /\ env' = e
    /\ stable' = [t \in Threads |-> FALSE]
    /\ fresh' = FALSE
    /\ UNCHANGED <<instance, ninst, initialized, config, lock, file, nobj, pc,
                   self, ref, caller, out, rdAmap, rdLog, err, consulted,
                   torn, initRuns, bootVars>>

\* the bootstrap has not run
BootIdle ==
    /\ port = <<>>
    /\ railway = FALSE
    /\ importOk = TRUE
    /\ bpc = "off"
    /\ bport = <<>>
    /\ bprod = <<>>
    /\ served = <<>>
    /\ exitCode = <<>>

\* ---------------------------------------- threads sharing the singleton
Init ==
    /\ InitConfig
    /\ env \in ReloadEnvs
    /\ file \in ReloadFiles
    /\ BootIdle

Next ==
    \/ \E t \in Threads : New(t)
    \/ \E t \in Threads : NewLocked(t)
    \/ \E t \in Threads : InitCheck(t)
    \/ \E t \in Threads : InitLocked(t)
    \/ \E t \in Threads : Reload(t)
    \/ \E t \in Threads : ReloadLocked(t)
    \/ \E t \in Threads : Load(t)
    \/ \E t \in Threads : LoadDone(t)
    \/ \E t \in Threads : ReadAmap(t)
    \/ \E t \in Threads : ReadLog(t)
    \/ \E e \in ReloadEnvs : SetEnv(e)

Spec == Init /\ [][Next]_vars

\* ------------------------------- one caller, every environment and file
InitResolve ==
    /\ InitConfig
    /\ env \in Envs
    /\ file \in Files
    /\ BootIdle

NextResolve ==
    \/ New(1)
    \/ NewLocked(1)
    \/ InitCheck(1)
    \/ InitLocked(1)
    \/ Reload(1)
    \/ ReloadLocked(1)
    \/ Load(1)
    \/ LoadDone(1)
    \/ ReadAmap(1)
    \/ ReadLog(1)
    \/ \E e \in Envs : SetEnv(e)

SpecResolve == InitResolve /\ [][NextResolve]_vars

\* ------------------------------------------------- web_server.main
\* the characters a PORT value is made of here
Digits == {"0", "8"}
PortChars == Digits \cup {" ", "-", "x"}
DefaultPort == 11024
Host == "0.0.0.0"

RECURSIVE PortStrings(_)
PortStrings(n) ==
    IF n = 0 THEN {<<>>}
    ELSE PortStrings(n - 1) \cup {Append(s, c) : s \in {u \in PortStrings(n - 1) : Len(u) = n - 1},
                                                 c \in PortChars}
\* PORT: unset, or a string of at most MaxPortLen characters
Ports == {<<>>} \cup {<<s>> : s \in PortStrings(MaxPortLen)}

RECURSIVE LStrip(_)
LStrip(s) == IF s # <<>> /\ Head(s) = " " THEN LStrip(Tail(s)) ELSE s
RECURSIVE RStrip(_)
RStrip(s) == IF s # <<>> /\ s[Len(s)] = " " THEN RStrip(SubSeq(s, 1, Len(s) - 1)) ELSE s
Strip(s) == RStrip(LStrip(s))
IsDigits(s) == s # <<>> /\ \A i \in 1..Len(s) : s[i] \in Digits
DigitVal(c) == IF c = "8" THEN 8 ELSE 0
RECURSIVE DigitsVal(_)
DigitsVal(s) == IF s = <<>> THEN 0 ELSE 10 * DigitsVal(SubSeq(s, 1, Len(s) - 1)) + DigitVal(s[Len(s)])

\* int(str): surrounding whitespace is dropped, a sign may lead, digits follow
IntOk(s) ==
    \/ IsDigits(Strip(s))
    \/ Strip(s) # <<>> /\ Head(Strip(s)) = "-" /\ IsDigits(Tail(Strip(s)))
IntVal(s) ==
    IF Head(Strip(s)) = "-" THEN 0 - DigitsVal(Tail(Strip(s))) ELSE DigitsVal(Strip(s))

\* a faulty variant: a PORT that is no integer gives the default port
PortOrDefault(p) ==
    IF p = <<>> \/ ~IntOk(p[1]) THEN [exc |-> "", val |-> DefaultPort]
    ELSE [exc |-> "", val |-> IntVal(p[1])]
\* line 26: int(os.environ.get("PORT", 11024))
PortOf(p) ==
    IF p = <<>> THEN [exc |-> "", val |-> DefaultPort]
    ELSE IF IntOk(p[1]) THEN [exc |-> "", val |-> IntVal(p[1])]
    ELSE [exc |-> "ValueError", val |-> 0]

\* lines 22-23 and 52-55: the imports; an ImportError is printed and exits with 1
BootImport ==
    /\ bpc = "start"
    /\ IF importOk
       THEN /\ bpc' = "port"
            /\ UNCHANGED exitCode
       ELSE /\ bpc' = "exited"
            /\ exitCode' = <<1>>
    /\ UNCHANGED <<cfgVars, port, railway, importOk, bport, bprod, served>>

\* lines 26 and 56-58: the port; any exception is printed and exits with 1
BootPort ==
    /\ bpc = "port"
    /\ IF PortOf(port).exc = ""
       THEN /\ bport' = <<PortOf(port).val>>
            /\ bpc' = "mode"
            /\ UNCHANGED exitCode
       ELSE /\ bpc' = "exited"
            /\ exitCode' = <<1>>
            /\ UNCHANGED bport
    /\ UNCHANGED <<cfgVars, port, railway, importOk, bprod, served>>

\* lines 29-40: production iff RAILWAY_ENVIRONMENT is set; the banner
BootMode ==
    /\ bpc = "mode"
    /\ bprod' = <<railway>>
    /\ bpc' = "run"
    /\ UNCHANGED <<cfgVars, port, railway, importOk, bport, served, exitCode>>

\* lines 43-50: uvicorn.run is called
BootRun ==
    /\ bpc = "run"
    /\ served' = <<[host |-> Host, port |-> bport[1], reload |-> ~bprod[1]]>>
    /\ bpc' = "serving"
    /\ UNCHANGED <<cfgVars, port, railway, importOk, bport, bprod, exitCode>>

\* uvicorn.run returns and main() with it
BootReturn ==
    /\ bpc = "serving"
    /\ bpc' = "exited"
    /\ exitCode' = <<0>>
    /\ UNCHANGED <<cfgVars, port, railway, importOk, bport, bprod, served>>

\* lines 56-58: uvicorn.run raises; the exception is printed and exits with 1
BootFail ==
    /\ bpc = "serving"
    /\ bpc' = "exited"
    /\ exitCode' = <<1>>
    /\ UNCHANGED <<cfgVars, port, railway, importOk, bport, bprod, served>>

InitBoot ==
    /\ InitConfig
    /\ env = [key |-> <<>>, sjc |-> <<>>]
    /\ file = File("absent", NoData)
    /\ port \in Ports
    /\ railway \in BOOLEAN
    /\ importOk \in BOOLEAN
    /\ bpc = "start"
    /\ bport = <<>>
    /\ bprod = <<>>
    /\ served = <<>>
    /\ exitCode = <<>>

NextBoot ==
    \/ BootImport
    \/ BootPort
    \/ BootMode
    \/ BootRun
    \/ BootReturn
    \/ BootFail

SpecBoot == InitBoot /\ [][NextBoot]_vars

\* =====================================================================
\* Properties of the resolution (checked under SpecResolve)
\* =====================================================================
\* the settings thread t's resolution has just installed
Installed(t) == config[self[t]][1]
\* thread t's resolution has installed settings, _load_initial_config has not
\* yet returned to its caller, and the inputs are those it read
JustLoaded(t) == pc[t] = "loaded" /\ stable[t]
\* the file holds an amap table
HasAmapTable(f) == f.state = "valid" /\ f.data.amap.kind = "table"
\* the file holds an amap table whose api_key is a non-empty string
HasFileKey(f) ==
    /\ HasAmapTable(f)
    /\ f.data.amap.tbl.api_key # <<>>
    /\ f.data.amap.tbl.api_key[1].t = "str"
    /\ f.data.amap.tbl.api_key[1].s # ""
\* the file holds an amap table whose api_key is missing or the empty string
HasEmptyFileKey(f) ==
    /\ HasAmapTable(f)
    /\ f.data.amap.tbl.api_key \in {<<>>, <<TStr("")>>}
\* the rest of the file is what the settings classes accept: security_js_code
\* a string if given, log a table (if given) of strings
RestAccepted(f) ==
    /\ f.data.amap.tbl.security_js_code \in {<<>>} \cup {<<TStr(x)>> : x \in {"fs1"}}
    /\ f.data.log.kind # "scalar"
    /\ f.data.log.tbl.level # <<TArr>>
    /\ f.data.log.tbl.file_path # <<TArr>>

\* C1: with AMAP_API_KEY set and non-empty when the resolution runs, the
\* installed settings carry that value as api_key, whatever the file is, and
\* the file is not looked at.
C1_EnvKeyWins ==
    \A t \in Threads :
        (JustLoaded(t) /\ getenvTruthy(env.key)) =>
            /\ config[self[t]] # <<>>
            /\ Installed(t).amap.api_key = env.key[1]
            /\ ~consulted[t]
\* a resolution with the variable set, beside a file that holds another key
C1_Witness ==
    \E t \in Threads :
        /\ JustLoaded(t)
        /\ getenvTruthy(env.key)
        /\ HasFileKey(file)
        /\ RestAccepted(file)
        /\ Installed(t).amap.api_key = env.key[1]

\* C2 as stated: with AMAP_API_KEY unset or empty and a file whose amap table
\* holds a non-empty api_key, the installed api_key is the file's, whatever
\* else the file holds.
C2_FileKeyAlways ==
    \A t \in Threads :
        (JustLoaded(t) /\ ~getenvTruthy(env.key) /\ HasFileKey(file)) =>
            Installed(t).amap.api_key = file.data.amap.tbl.api_key[1].s
\* C2 amended: ... the installed api_key is the file's provided the rest of
\* the file is accepted by the settings classes; otherwise the settings are
\* the ones built from the environment (api_key "") with the default log.
C2_FileKeyWhenAccepted ==
    \A t \in Threads :
        (JustLoaded(t) /\ ~getenvTruthy(env.key) /\ HasFileKey(file)) =>
            IF RestAccepted(file)
            THEN /\ Installed(t).amap.api_key = file.data.amap.tbl.api_key[1].s
                 /\ out[t] = <<>>
            ELSE /\ Installed(t).amap = AMapSettings("", <<getenv(env.sjc, "")>>)
                 /\ Installed(t).log = DefaultLog
                 /\ out[t] # <<>>
\* a resolution from a file with a key, a security code and a log table
C2_Witness ==
    \E t \in Threads :
        /\ JustLoaded(t)
        /\ env.key = <<"">>
        /\ HasFileKey(file)
        /\ file.data.amap.tbl.security_js_code = <<TStr("fs1")>>
        /\ file.data.log.kind = "table"
        /\ file.data.log.tbl.level = <<TStr("DEBUG")>>
        /\ Installed(t).amap.api_key = "fk1"
        /\ Installed(t).log.level = "DEBUG"

\* C3: no environment and no file state makes Config() or reload() raise; a
\* call that has returned leaves settings installed; and with a file whose
\* api_key is empty the installed settings are those built from
\* AMAP_API_KEY and AMAP_SECURITY_JS_CODE (each "" when unset), default log.
C3_NeverRaises ==
    \A t \in Threads :
        /\ err[t] = ""
        /\ pc[t] # "crashed"
        /\ ref[t] # 0 => config[ref[t]] # <<>>
        /\ pc[t] = "loaded" => config[self[t]] # <<>>
        /\ (JustLoaded(t) /\ HasEmptyFileKey(file)) =>
               /\ Installed(t).amap = AMapSettings(getenv(env.key, ""), <<getenv(env.sjc, "")>>)
               /\ Installed(t).log = DefaultLog
\* a reload() over a file with an empty api_key and no AMAP_API_KEY, which took
\* the ValueError path
C3_Witness ==
    \E t \in Threads :
        /\ JustLoaded(t)
        /\ caller[t] = "reload"
        /\ file.data.amap.tbl.api_key = <<TStr("")>>
        /\ HasAmapTable(file)
        /\ env.key = <<>>
        /\ out[t] = <<"ValueError">>

\* C4: with no file and AMAP_API_KEY not set, the installed settings have
\* api_key "" and the default log settings, and the resolution printed the
\* fallback warning.
C4_NoFileNoEnv ==
    \A t \in Threads :
        (JustLoaded(t) /\ file.state = "absent" /\ env.key = <<>>) =>
            /\ Installed(t).amap.api_key = ""
            /\ Installed(t).log = LogSettings("INFO", "logs/meetspot.log")
            /\ out[t] = <<"FileNotFoundError">>
\* the first Config() with no file and no variable
C4_Witness ==
    \E t \in Threads :
        /\ JustLoaded(t)
        /\ caller[t] = "init"
        /\ file.state = "absent"
        /\ env.key = <<>>
        /\ Installed(t).amap.api_key = ""

\* =====================================================================
\* Properties of the shared singleton (checked under Spec)
\* =====================================================================
\* the threads inside _load_initial_config or between it and the release
Resolving == {t \in Threads : pc[t] \in {"load", "loaded"}}
\* some Config() call has returned
Constructed == \E t \in Threads : ref[t] # 0
\* thread t has read config.amap and then config.log
ReadBoth(t) == pc[t] = "idle" /\ rdAmap[t] # <<>> /\ rdLog[t] # <<>>

\* C5: once a Config() call has returned, no read of config.amap or
\* config.log meets an unset _config: no reader fails on None, the instance a
\* caller holds always has a complete AppConfig installed, and what was read
\* is a part of an AppConfig some resolution built.
C5_ReadersSeeComplete ==
    \A t \in Threads :
        /\ err[t] # "AttributeError"
        /\ ref[t] # 0 => config[ref[t]] # <<>>
        /\ rdAmap[t] # <<>> => rdAmap[t][1].id \in 1..nobj
        /\ rdLog[t] # <<>> => rdLog[t][1].id \in 1..nobj
\* a reader between its two reads while another thread's reload() resolves
C5_Witness ==
    \E t, u \in Threads :
        /\ pc[t] = "rd_log"
        /\ pc[u] = "load"
        /\ caller[u] = "reload"

\* C6 as stated: a reader that reads config.amap and then config.log gets both
\* from the same AppConfig, also when a reload() runs meanwhile.
C6_SameSnapshot ==
    \A t \in Threads : ReadBoth(t) => rdAmap[t][1].id = rdLog[t][1].id
\* C6 amended: each of the two reads returns a part of a completely built
\* AppConfig; the two parts come from the same AppConfig exactly when no
\* resolution installed settings between the two reads, and otherwise the log
\* part comes from the AppConfig installed later.
C6_SameUnlessInstalledBetween ==
    \A t \in Threads :
        /\ err[t] # "AttributeError"
        /\ ReadBoth(t) =>
               /\ (rdAmap[t][1].id = rdLog[t][1].id) <=> ~torn[t]
               /\ rdAmap[t][1].id <= rdLog[t][1].id
\* a reader whose two reads straddle a reload(): parts of two AppConfigs
C6_Witness ==
    \E t \in Threads :
        /\ ReadBoth(t)
        /\ torn[t]
        /\ rdAmap[t][1].id < rdLog[t][1].id

\* C7: however the first Config() calls interleave, one instance is created,
\* __init__ runs the resolution once, a Config() call returns only after that
\* resolution has installed its settings, and every caller gets that one
\* instance.
C7_OneInstanceOneResolution ==
    /\ ninst <= 1
    /\ initRuns <= 1
    /\ \A t \in Threads :
           ref[t] # 0 =>
               /\ ref[t] = instance
               /\ initRuns = 1
               /\ nobj >= 1
               /\ config[ref[t]] # <<>>
\* two callers raced through __new__'s first check; one resolves, the other
\* still waits for the lock
C7_Witness ==
    \E t, u \in Threads :
        /\ pc[t] = "load"
        /\ caller[t] = "init"
        /\ pc[u] = "new_lock"

\* C8: after the environment has been changed and a reload() that read it has
\* returned, a non-empty AMAP_API_KEY is what config.amap.api_key gives, not
\* the value an earlier resolution captured.
C8_ReloadSeesNewEnv ==
    (fresh /\ getenvTruthy(env.key)) =>
        \A t \in Threads :
            ref[t] # 0 =>
                /\ config[ref[t]] # <<>>
                /\ config[ref[t]][1].amap.api_key = env.key[1]
\* a reader holds the key of an earlier resolution; the variable was changed to
\* another non-empty value and a reload() has returned since
C8_Witness ==
    /\ fresh
    /\ getenvTruthy(env.key)
    /\ \E t \in Threads :
           /\ rdAmap[t] # <<>>
           /\ rdAmap[t][1].val.api_key \notin {"", env.key[1]}
           /\ rdAmap[t][1].id < nobj

\* C10: at most one thread is in the resolution at any time, and it holds the
\* lock; __init__ runs the resolution at most once, so a Config() call that
\* finds _initialized false during a reload() waits and neither resolves
\* again nor clears the installed settings.
C10_ResolutionsSerialized ==
    /\ Cardinality(Resolving) <= 1
    /\ \A t \in Resolving : lock = t
    /\ initRuns <= 1
    /\ Constructed => config[instance] # <<>>
\* a Config() call waiting for the lock while a reload() resolves
C10_Witness ==
    \E t, u \in Threads :
        /\ pc[t] = "init_lock"
        /\ pc[u] \in {"load", "loaded"}
        /\ caller[u] = "reload"

\* =====================================================================
\* Properties of the bootstrap (checked under SpecBoot)
\* =====================================================================
\* main() has called uvicorn.run or has exited
Started == bpc \in {"serving", "exited"}
\* the port the claim expects: PORT when it is an integer, else 11024
ExpectedPort == IF port # <<>> /\ IntOk(port[1]) THEN IntVal(port[1]) ELSE 11024

\* C9 as stated: with the imports in place, the server is started on PORT when
\* that is an integer and on 11024 when PORT is unset or no integer, with host
\* 0.0.0.0.
C9_DefaultWhenUnparsable ==
    (importOk /\ Started) =>
        /\ served # <<>>
        /\ served[1].host = "0.0.0.0"
        /\ served[1].port = ExpectedPort
\* C9 amended: with the imports in place, the server is started with host
\* 0.0.0.0 on PORT when that is an integer and on 11024 when PORT is unset;
\* when PORT is set and no integer the server is not started and the process
\* exits with code 1.
C9_PortOrExit ==
    (importOk /\ Started) =>
        IF port = <<>> \/ IntOk(port[1])
        THEN /\ served # <<>>
             /\ served[1].host = "0.0.0.0"
             /\ served[1].port = ExpectedPort
        ELSE /\ served = <<>>
             /\ exitCode = <<1>>
\* PORT=8080: the server runs on 8080
C9_Witness ==
    /\ bpc = "serving"
    /\ port = << <<"8", "0", "8", "0">> >>
    /\ served # <<>>
    /\ served[1].port = 8080
    /\ served[1].host = "0.0.0.0"
====
